---- MODULE Spec2Model ----
(***************************************************************************)
(* Per-identity execution engine of hyperliquid_top_gun.py: the signal     *)
(* dispatcher (run_loop), the fill monitor (run_fill_monitor), the         *)
(* position reconciler (run_position_reconciliation) and the breakeven     *)
(* routine they share (_move_sl_to_breakeven), over one SQLite store and   *)
(* one exchange account.                                                   *)
(***************************************************************************)
EXTENDS Integers, Sequences, FiniteSets, TLC

(* ------------------------------ bounds -------------------------------- *)
\* entry rows and exit rows the ingestion pipeline inserts in one run
MaxEntries == 1
MaxExits == 1
\* fills the exchange keeps in the history it returns
MaxFills == 2
\* orders the exchange accepts in one run (order ids 1..MaxOid)
MaxOid == 5
\* model time runs 0, TimeStep, 2*TimeStep, ... up to MaxNow (days)
TimeStep == 30
MaxNow == 31
\* store exceptions and process restarts injected in one run
MaxFaults == 1
\* admin commands inserted in one run
MaxCmds == 2
\* entries kept in a row's notes column
MaxNotes == 1

(* ------------------------- program constants -------------------------- *)
\* datetime(created_at) > datetime('now', '-30 days')
RecencyDays == 30
\* target_1 .. target_5 columns, of which the model's rows use the first two
NumTargets == 2
\* self.sz_decimals_map.get(ticker, 3): lots per coin are 10^szDecimals;
\* the model's instrument has one size decimal
LotsPerCoin == 10
\* float(user_state["marginSummary"]["accountValue"])
Equity == 1000
\* risk_per_trade default 0.01, in percent
RiskPct == 1
\* max_leverage default 5.0
MaxLeverage == 5
\* max_concurrent_positions default 3
MaxConcurrentPositions == 3

Symbols == {"ETH", "ETHUSDT"}
\* missing, equal to the stop, usual, and so far from the stop that the size
\* rounds to zero
EntryPrices == {0, 90, 100, 1000}
StopPrice == 90
\* closedPnl of a closing fill: a stop at the entry price realizes nothing
PnlOf(kind) == IF kind = "be" THEN 0 ELSE IF kind = "sl" THEN -10 ELSE 5

\* ticker.upper().replace("USDT", "").replace("PERP", "")
Clean(s) == IF s = "ETHUSDT" THEN "ETH" ELSE s

Min(a, b) == IF a < b THEN a ELSE b

Abs(x) == IF x < 0 THEN -x ELSE x

\* Python round() of the exact quotient n/d to an integer, ties to even
RoundDiv(n, d) ==
    LET q == n \div d
        r == n % d
    IN  IF 2 * r < d THEN q
        ELSE IF 2 * r > d THEN q + 1
        ELSE IF q % 2 = 0 THEN q ELSE q + 1

\* the last n elements of a sequence (fills[-100:], the notes column's tail)
LastN(s, n) == IF Len(s) <= n THEN s ELSE SubSeq(s, Len(s) - n + 1, Len(s))

VARIABLES
    rows,       \* signals table as committed: row id -> row
    wlock,      \* connection holding SQLite's write lock: "none", "fm", "rc"
    dirty,      \* the lock holder's uncommitted version of the table
    controls,   \* bot_controls table of the identity, oldest first
    pos,        \* exchange: the account holds a non-zero ETH position
    orders,     \* exchange: open orders of the account
    fills,      \* exchange: fill history user_fills returns, oldest first
    nextOid,    \* exchange: next order id
    now,        \* wall clock, in days
    d,          \* run_loop's locals
    fm,         \* run_fill_monitor's locals
    rc,         \* run_position_reconciliation's locals
    be,         \* _move_sl_to_breakeven's locals, per calling loop
    faults,     \* store exceptions and restarts so far
    entrySubmits, \* history: entry orders the gateway accepted per row (up to 2)
    beAccepted, \* history: <<row, order id>> of the breakeven stops accepted
    idem,       \* history: two reconciler passes in direct succession
    otherPos,   \* exchange: the account's non-zero positions in other coins
    calc,       \* the arguments and the result of one call of a pure routine
    enableBe,   \* process environment: ENABLE_BREAKEVEN_SL reads as true
    launch      \* how the engine was started, and the directions configured

vars == <<rows, wlock, dirty, controls, pos, orders, fills, nextOid, now, d,
          fm, rc, be, faults, entrySubmits, beAccepted, idem, otherPos, calc,
          enableBe, launch>>

store == <<rows, wlock, dirty>>
exchange == <<pos, orders, fills, nextOid>>
monitors == <<fm, rc, be>>
history == <<entrySubmits, beAccepted>>
\* what no step of a loop or of the environment changes
fixed == <<otherPos, calc, enableBe, launch>>

NoTargets == [k \in 1..NumTargets |-> 0]

\* a row as the ingestion pipeline inserts it
NewRow(kind, sym, entry, nt) ==
    [kind |-> kind, symbol |-> sym, dir |-> "long", status |-> "pending",
     created |-> now, entry |-> entry, sl |-> IF kind = "entry" THEN StopPrice ELSE 0,
     nt |-> nt, size |-> 0, oe |-> 0, osl |-> 0, otp |-> NoTargets,
     tpf |-> NoTargets, be |-> FALSE, beo |-> 0, pnl |-> <<>>, notes |-> <<>>]

\* notes = COALESCE(notes, '') || tag (the model keeps the column's tail)
AddNote(r, tag) == LastN(Append(r.notes, tag), MaxNotes)

RowIds(rs) == 1..Len(rs)

Count(kind) == Cardinality({r \in RowIds(rows) : rows[r].kind = kind})

\* what a connection reads: its own uncommitted writes, else the committed table
View(p) == IF wlock = p THEN dirty ELSE rows
\* the same in the next state
ViewNext(p) == IF wlock' = p THEN dirty' ELSE rows'

Callers == {"fm", "rc"}

\* wm: last_fill_check; batch: the fills of new_fills still to process; done:
\* the order ids of those already processed
FmIdle(wm) == [pc |-> "idle", wm |-> wm, batch |-> <<>>, done |-> {}]
\* ghosts: the rows the pass found without a live position; fetched: user_fills
\* answered when the pass looked for their PnL
RcIdle == [pc |-> "idle", ghosts |-> {}, fetched |-> FALSE, queue |-> <<>>]
\* won: the call's conditional UPDATE affected one row; gw: the call has made a
\* gateway call; rival: the other loop's call for the same row won its claim
\* while this call was in progress; hadStop: a stop order of the position was
\* open on the exchange when the call began
BeIdle == [pc |-> "idle", row |-> 0, ticker |-> "", dir |-> "", entry |-> 0,
           sloid |-> 0, size |-> 0,
           beoid |-> 0, won |-> FALSE, gw |-> FALSE, rival |-> FALSE,
           hadStop |-> FALSE]

\* what the gateway answered in a tick: slRej, the stop order was rejected;
\* tpFail, the targets whose take-profit call was rejected or raised; cancRej,
\* a cancel was answered with an error; entryRej, the entry order was rejected
NoneSeen == [slRej |-> FALSE, tpFail |-> {}, cancRej |-> FALSE,
             entryRej |-> FALSE]

\* out: how the last tick ended ("filled", "executed", "failed", or "unmarked"
\* when the row could not be marked failed); row: the row it took
DIdle == [pc |-> "idle", row |-> 0, size |-> 0, eoid |-> 0, out |-> "none",
          seen |-> NoneSeen]

\* variant: an exception of the handler's own UPDATE leaves the loop
EndedUncaught(r, out, seen) ==
    [DIdle EXCEPT !.pc = IF out = "unmarked" THEN "dead" ELSE "idle",
                  !.row = r, !.out = out, !.seen = seen]

\* the locals a tick on row r leaves behind
Ended(r, out, seen) == [DIdle EXCEPT !.row = r, !.out = out, !.seen = seen]

\* phase 1: a reconciler pass is running; 2: it has completed and nothing else
\* has happened since it began (snap: the table it left); 3: the next pass is
\* running, still with nothing else having happened (calls: it has sent a cancel
\* or an order); 4: that pass has completed too (snap: still the table the pass
\* before it left); 0: otherwise
IdemOff == [phase |-> 0, snap |-> <<>>, calls |-> FALSE]

\* a step of anything but the reconciler ends a succession of passes
Untrack == idem' = IdemOff

\* the engine constructed by a caller that passes the parameters __init__ has
\* (HyperLiquidTopGun(bot_id, private_key, ...)) and its three loops started
Direct == [by |-> "direct", dirs |-> "none", pc |-> "running"]

\* the store, the exchange and the loops' locals when the loops start; the
\* account may hold positions in other coins
InitTables ==
    /\ rows = <<>>
    /\ wlock = "none"
    /\ dirty = <<>>
    /\ controls = <<>>
    /\ pos = FALSE
    /\ orders = {}
    /\ fills = <<>>
    /\ nextOid = 1
    /\ now = 1
    /\ d = DIdle
    /\ fm = FmIdle(0)
    /\ rc = RcIdle
    /\ be = [p \in Callers |-> BeIdle]
    /\ entrySubmits = <<>>
    /\ beAccepted = {}
    /\ idem = IdemOff
    /\ otherPos \in {0, MaxConcurrentPositions}

\* the store, the exchange and the loops after construction; the account may
\* hold positions in other coins when the engine starts
InitStore == InitTables /\ launch = Direct

\* the state after construction but for the count of store exceptions, in a
\* process started without ENABLE_BREAKEVEN_SL (the default is 'True')
InitBase == InitStore /\ enableBe = TRUE

\* no call of a pure routine is being looked at
NoCalc == [op |-> "none"]

Init == InitBase /\ faults = 0 /\ calc = NoCalc

\* a run in which the store raises nothing and the process is not restarted
InitNoFaults == InitBase /\ faults = MaxFaults /\ calc = NoCalc

\* a store statement or commit raises (sqlite3.OperationalError and the like)
Raises(n) == faults + n <= MaxFaults /\ faults' = faults + n

(* ---------------------------- environment ----------------------------- *)
\* the ingestion pipeline inserts a pending entry row (an INSERT needs the
\* write lock)
IngestEntry ==
    /\ wlock = "none"
    /\ Count("entry") < MaxEntries
    /\ \E sym \in Symbols, e \in EntryPrices, nt \in 1..NumTargets :
          rows' = Append(rows, NewRow("entry", sym, e, nt))
    /\ entrySubmits' = Append(entrySubmits, 0)
    /\ beAccepted' = beAccepted
    /\ UNCHANGED <<wlock, dirty, controls, exchange, now, d, monitors, faults>>
    /\ Untrack
    /\ UNCHANGED fixed

\* the ingestion pipeline inserts a pending exit row
IngestExit ==
    /\ wlock = "none"
    /\ Count("exit") < MaxExits
    /\ rows' = Append(rows, NewRow("exit", "ETH", 0, 0))
    /\ entrySubmits' = Append(entrySubmits, 0)
    /\ beAccepted' = beAccepted
    /\ UNCHANGED <<wlock, dirty, controls, exchange, now, d, monitors, faults>>
    /\ Untrack
    /\ UNCHANGED fixed

\* admin_controls.py send_db_command: INSERT INTO bot_controls
SendCommand ==
    /\ Len(controls) < MaxCmds
    /\ \E c \in {"PAUSE", "RESUME"} : controls' = Append(controls, c)
    /\ UNCHANGED <<store, exchange, now, d, monitors, faults, history>>
    /\ Untrack
    /\ UNCHANGED fixed

\* the clock's step is weeks and an iteration of a loop takes seconds: time
\* passes between iterations
AdvanceTime ==
    /\ now + TimeStep <= MaxNow
    /\ d.pc = "idle" /\ fm.pc = "idle" /\ rc.pc = "idle"
    /\ now' = now + TimeStep
    /\ UNCHANGED <<store, controls, exchange, d, monitors, faults, history>>
    /\ Untrack
    /\ UNCHANGED fixed

\* user_fills returns the most recent fills only
AppendFill(fs, f) == LastN(Append(fs, f), MaxFills)

\* the exchange executes an open order: the resting entry opens the position,
\* a reduce-only trigger order closes all of it or, a take-profit, part of it
EnvFillOrder ==
    \E o \in orders :
        /\ orders' = orders \ {o}
        /\ \/ /\ o.kind = "entry"
              /\ pos' = TRUE
              /\ fills' = AppendFill(fills, [oid |-> o.oid, close |-> FALSE,
                                             pnl |-> 0, time |-> now])
           \/ /\ o.kind # "entry"
              /\ pos
              /\ fills' = AppendFill(fills, [oid |-> o.oid, close |-> TRUE,
                                             pnl |-> PnlOf(o.kind),
                                             time |-> now])
              /\ \/ pos' = FALSE
                 \/ o.kind = "tp" /\ pos' = TRUE
        /\ UNCHANGED <<store, controls, nextOid, now, d, monitors, faults,
                       history>>
    /\ Untrack
    /\ UNCHANGED fixed

\* the process is stopped and started again: every loop starts over, open
\* connections are closed and their uncommitted writes rolled back
Restart ==
    /\ d.pc # "idle" \/ fm # FmIdle(0) \/ rc.pc # "idle"
    /\ Raises(1)
    /\ d' = DIdle
    /\ fm' = FmIdle(0)
    /\ rc' = RcIdle
    /\ be' = [p \in Callers |-> BeIdle]
    /\ wlock' = "none"
    /\ dirty' = <<>>
    /\ UNCHANGED <<rows, controls, exchange, now, history>>
    /\ Untrack
    /\ UNCHANGED fixed

(* ----------------------------- gateway -------------------------------- *)
\* user_state: the coins with a non-zero position
OpenTickers == IF pos THEN {"ETH"} ELSE {}

(* --------------------------- pure routines ---------------------------- *)
\* sizes are counted in thousandths of a coin, sz_decimals running from 0 to
\* SizeDigits: round(x, sz_decimals) rounds to a multiple of SizeUnit(dec)
SizeDigits == 3
\* target_1 .. target_5
TargetColumns == 5
\* largest total size, in lots of the instrument, a split is computed for
MaxSplitLots == 8

RECURSIVE Pow10(_)
Pow10(n) == IF n <= 0 THEN 1 ELSE 10 * Pow10(n - 1)

SizeUnit(dec) == Pow10(SizeDigits - dec)

\* round(x, n) of a value x given as an integer count of some unit, to a
\* multiple of `unit`
RoundTo(x, unit) == RoundDiv(x, unit) * unit

\* partial_sz of the target at position idx (1 .. nt) of a row with nt targets:
\* round(size_coin / num_targets, sz_decimals), and for the last target
\* round(size_coin - partial_sz * (num_targets - 1), sz_decimals)
TpSize(size, nt, idx, dec) ==
    LET share == RoundDiv(size, nt * SizeUnit(dec)) * SizeUnit(dec)
    IN  IF idx = nt
        THEN RoundTo(size - share * (nt - 1), SizeUnit(dec))
        ELSE share

\* if partial_sz <= 0: continue - the targets an order is submitted for
TpSubmitted(size, nt, dec) == {k \in 1..nt : TpSize(size, nt, k, dec) > 0}

RECURSIVE SumSizes(_, _, _, _)
SumSizes(S, size, nt, dec) ==
    IF S = {} THEN 0
    ELSE LET k == CHOOSE x \in S : TRUE
         IN  TpSize(size, nt, k, dec) + SumSizes(S \ {k}, size, nt, dec)

\* the calls of the split the specification of pure routines starts from
SplitInputs ==
    {[op |-> "split", size |-> lots * SizeUnit(dec), nt |-> nt, dec |-> dec,
      done |-> FALSE, sent |-> {}, sum |-> 0] :
        lots \in 1..MaxSplitLots, nt \in 1..TargetColumns, dec \in 0..SizeDigits}

\* the take-profit loop of run_loop applied to the call's arguments
CalcSplit ==
    /\ calc.op = "split"
    /\ ~calc.done
    /\ calc' = [calc EXCEPT
                  !.done = TRUE,
                  !.sent = TpSubmitted(calc.size, calc.nt, calc.dec),
                  !.sum = SumSizes(TpSubmitted(calc.size, calc.nt, calc.dec),
                                   calc.size, calc.nt, calc.dec)]
    /\ UNCHANGED <<store, controls, exchange, now, d, monitors, faults,
                   history, idem, otherPos, enableBe,
                   launch>>

\* variant: the size is never reduced
UncappedSize(num, den, entry, equity, lev) == <<num, den>>
\* the leverage cap on a size given as the fraction num / den (coins), entry
\* price, equity and leverage being whole numbers: the size that goes on to
\* the rounding, again as a fraction
CappedSize(num, den, entry, equity, lev) ==
    IF num * entry > equity * lev * den
    THEN <<equity * lev, entry>>
    ELSE <<num, den>>

CapInputs ==
    {[op |-> "cap", num |-> num, den |-> den, entry |-> entry,
      equity |-> equity, lev |-> lev, done |-> FALSE, out |-> <<0, 1>>] :
        num \in {1, 10, 50, 60, 101}, den \in {1, 2, 3},
        entry \in {3, 100, 250}, equity \in {500, 1000}, lev \in {1, 5}}

\* the cap applied to the call's arguments
CalcCap ==
    /\ calc.op = "cap"
    /\ ~calc.done
    /\ calc' = [calc EXCEPT
                  !.done = TRUE,
                  !.out = CappedSize(calc.num, calc.den, calc.entry,
                                     calc.equity, calc.lev)]
    /\ UNCHANGED <<store, controls, exchange, now, d, monitors, faults,
                   history, idem, otherPos, enableBe,
                   launch>>

\* the number of decimal digits of a positive whole number
RECURSIVE Digits(_)
Digits(n) == IF n < 10 THEN 1 ELSE 1 + Digits(n \div 10)

\* variant: only the instrument's decimals limit the price
RoundPxByDecimals(m, e, szDec) ==
    IF m = 0 THEN 0
    ELSE IF 6 - szDec >= e THEN m ELSE RoundTo(m, Pow10(e - (6 - szDec)))
\* variant: the digits beyond the allowed ones are cut off
RoundPxDown(m, e, szDec) ==
    IF m = 0 THEN 0
    ELSE LET magnitude == Digits(Abs(m)) - 1 - e
             final == Min(5 - 1 - magnitude, 6 - szDec)
         IN  IF final >= e THEN m
             ELSE (m \div Pow10(e - final)) * Pow10(e - final)
\* round_px of the price m * 10^-e for an instrument with szDec size
\* decimals, as a count of the same unit 10^-e:
\* magnitude = floor(log10(abs(price))), final_decimals = min(5 - 1 -
\* magnitude, 6 - sz_decimals), round(price, final_decimals)
RoundPx(m, e, szDec) ==
    IF m = 0 THEN 0
    ELSE LET magnitude == Digits(Abs(m)) - 1 - e
             final == Min(5 - 1 - magnitude, 6 - szDec)
         IN  IF final >= e THEN m ELSE RoundTo(m, Pow10(e - final))

\* prices the rounding is applied to, as mantissas of at most eight digits
Mantissas ==
    {0, 1, 5, 15, 25, 35, 1234, 99995, 99999, 100000, 100005, 123456, 250000,
     999995, 12345678, 12345500, 12344500}
\* decimals a price is given with
MaxPxDigits == 4
\* sz_decimals of the instruments
MaxSzDecimals == 5

RoundInputs ==
    {[op |-> "round", m |-> sign * m, e |-> e, szDec |-> sz, done |-> FALSE,
      out |-> 0] :
        sign \in {-1, 1}, m \in Mantissas, e \in 0..MaxPxDigits,
        sz \in 0..MaxSzDecimals}

\* round_px applied to the call's arguments
CalcRound ==
    /\ calc.op = "round"
    /\ ~calc.done
    /\ calc' = [calc EXCEPT !.done = TRUE,
                            !.out = RoundPx(calc.m, calc.e, calc.szDec)]
    /\ UNCHANGED <<store, controls, exchange, now, d, monitors, faults,
                   history, idem, otherPos, enableBe,
                   launch>>

InitCalc ==
    /\ InitBase
    /\ faults = 0
    /\ calc \in SplitInputs \cup CapInputs \cup RoundInputs

NextCalc == CalcSplit \/ CalcCap \/ CalcRound

\* one call of a pure routine of the dispatcher, on arguments of its domain
SpecCalc == InitCalc /\ [][NextCalc]_vars

(* ------------------- SignalDispatcher: run_loop ----------------------- *)
\* default_sl_dist default 0.05, in percent
DefaultSlDistPct == 5

Pending(kind) ==
    {r \in RowIds(rows) : rows[r].kind = kind /\ rows[r].status = "pending"}

\* ORDER BY created_at ASC LIMIT 1
Oldest(S) == {r \in S : \A q \in S : rows[r].created <= rows[q].created}

\* the provided stop, or entry -/+ entry * default_sl_dist (the model's rows are long)
StopOf(row) ==
    IF row.sl = 0 THEN row.entry - (row.entry * DefaultSlDistPct) \div 100
    ELSE row.sl

\* round(size_coin, sz_decimals) in lots, size_coin = risk_amt / price_diff capped
\* at equity * max_leverage / entry
SizeLots(row) ==
    LET diff == Abs(row.entry - StopOf(row))
        num == Equity * RiskPct
        den == 100 * diff
    IN  IF num * row.entry > Equity * MaxLeverage * den
        THEN RoundDiv(Equity * MaxLeverage * LotsPerCoin, row.entry)
        ELSE RoundDiv(num * LotsPerCoin, den)

\* the take-profit size of target k of nt: round(size / nt), the last target
\* taking size - partial * (nt - 1)
PartialLots(size, nt, k) ==
    LET part == RoundDiv(size, nt)
    IN  IF k = nt THEN size - part * (nt - 1) ELSE part

\* the validation errors raised before any order is sent
Invalid(row) ==
    \/ row.entry = 0
    \/ Cardinality(OpenTickers) + otherPos >= MaxConcurrentPositions
    \/ row.entry = StopOf(row)
    \/ SizeLots(row) <= 0

\* variant: the handler logs the exception and leaves the row as it is
D_FailLogOnly(n, r, why, seen) ==
    /\ rows' = rows
    /\ d' = Ended(r, "unmarked", seen)
    /\ Raises(n)

\* except Exception: UPDATE signals SET status = 'failed', notes = str(e); when
\* that UPDATE or its commit raises too, the outer handler leaves the row as it
\* is (n: the store exceptions already raised in this step)
D_Fail(n, r, why, seen) ==
    \/ /\ wlock = "none"
       /\ rows' = [rows EXCEPT ![r].status = "failed", ![r].notes = <<why>>]
       /\ d' = Ended(r, "failed", seen)
       /\ Raises(n)
    \/ /\ rows' = rows
       /\ d' = Ended(r, "unmarked", seen)
       /\ Raises(n + 1)

\* SELECT ... signal_type = 'exit' ... LIMIT 1, then for an entry the same
\* query: the row this tick takes
ExitRow == Oldest(Pending("exit"))
\* variant: the entry query is made whether or not an exit is pending
EntryRowAnyway == Oldest(Pending("entry"))
EntryRow == IF Pending("exit") = {} THEN Oldest(Pending("entry")) ELSE {}

\* is_buy = (direction.lower() in ["long", "bullish"])
IsBuy(direction) == direction \in {"long", "bullish"}

\* the limit entry order as the exchange holds it under id oid: is_buy =
\* is_buy, reduce_only = False
EntryOrder(oid, row) ==
    [oid |-> oid, kind |-> "entry", isBuy |-> IsBuy(row.dir),
     reduceOnly |-> FALSE]

\* variant: the stop is sent on the side of the entry
SlOrderSameSide(oid, row) ==
    [oid |-> oid, kind |-> "sl", isBuy |-> IsBuy(row.dir), reduceOnly |-> TRUE]
\* the stop-loss trigger order: is_buy = not is_buy, reduce_only = True
SlOrder(oid, row) ==
    [oid |-> oid, kind |-> "sl", isBuy |-> ~IsBuy(row.dir), reduceOnly |-> TRUE]

\* a take-profit trigger order: is_buy = not is_buy, reduce_only = True
TpOrder(oid, row) ==
    [oid |-> oid, kind |-> "tp", isBuy |-> ~IsBuy(row.dir), reduceOnly |-> TRUE]

\* a tick that finds no pending exit takes the oldest pending entry: validation,
\* then the limit entry order
D_EntryBegin ==
    /\ d.pc = "idle"
    /\ \E r \in EntryRow :
        \/ /\ Invalid(rows[r]) \/ rows[r].entry # 0
           /\ D_Fail(0, r, "entry not sent", NoneSeen)
           /\ UNCHANGED <<orders, nextOid, entrySubmits>>
        \/ /\ ~Invalid(rows[r])
           /\ \/ /\ nextOid <= MaxOid
                 /\ orders' = orders \cup {EntryOrder(nextOid, rows[r])}
                 /\ nextOid' = nextOid + 1
                 /\ d' = [DIdle EXCEPT !.pc = "orders", !.row = r,
                                        !.size = SizeLots(rows[r]),
                                        !.eoid = nextOid]
                 /\ entrySubmits' = [entrySubmits EXCEPT ![r] = Min(@ + 1, 2)]
                 /\ UNCHANGED <<rows, faults>>
              \/ /\ D_Fail(0, r, "entry order rejected",
                           [NoneSeen EXCEPT !.entryRej = TRUE])
                 /\ UNCHANGED <<orders, nextOid, entrySubmits>>
    /\ UNCHANGED <<wlock, dirty, controls, pos, fills, now, monitors,
                   beAccepted>>
    /\ Untrack
    /\ UNCHANGED fixed

\* the targets whose take-profit order is sent: partial_sz > 0
Sendable(size, nt) == {k \in 1..nt : PartialLots(size, nt, k) > 0}

\* sl_oid = self._extract_order_id(result_sl): None for a rejected order
SlOidKept(slOk, oid) == oid
SlOid(slOk, oid) == IF slOk THEN oid ELSE 0

\* tp_oids[tp_num] = tp_oid for the accepted targets tps, ids counted from base
TpOidsPacked(tps, base) ==
    [k \in 1..NumTargets |-> IF k <= Cardinality(tps) THEN base + k - 1 ELSE 0]
TpOids(tps, base) ==
    [k \in 1..NumTargets |->
        IF k \in tps THEN base + Cardinality({j \in tps : j < k}) ELSE 0]

\* the stop and the take-profits after an accepted entry, then the UPDATE to
\* 'filled'.  A rejected stop is swallowed (no id recorded), an exception of the
\* stop's call fails the signal; a take-profit that fails is skipped.
D_EntryOrders ==
    /\ d.pc = "orders"
    /\ LET nt == rows[d.row].nt IN
        \/ \E slOk \in BOOLEAN, tps \in SUBSET Sendable(d.size, nt) :
            LET n == (IF slOk THEN 1 ELSE 0) + Cardinality(tps)
                base == nextOid + (IF slOk THEN 1 ELSE 0)
                tpOid == TpOids(tps, base)
                seen == [NoneSeen EXCEPT !.slRej = ~slOk,
                                         !.tpFail = Sendable(d.size, nt) \ tps]
            IN  /\ nextOid + n - 1 <= MaxOid
                /\ nextOid' = nextOid + n
                /\ orders' = orders
                      \cup (IF slOk THEN {SlOrder(nextOid, rows[d.row])}
                            ELSE {})
                      \cup {TpOrder(base + Cardinality({j \in tps : j < k}),
                                    rows[d.row]) : k \in tps}
                /\ \/ /\ wlock = "none"
                      /\ rows' = [rows EXCEPT ![d.row].status = "filled",
                                              ![d.row].size = d.size,
                                              ![d.row].oe = d.eoid,
                                              ![d.row].osl = SlOid(slOk, nextOid),
                                              ![d.row].otp = tpOid]
                      /\ d' = Ended(d.row, "filled", seen)
                      /\ faults' = faults
                   \/ D_Fail(1, d.row, "store error", seen)
        \/ /\ D_Fail(0, d.row, "stop order error", NoneSeen)
           /\ UNCHANGED <<orders, nextOid>>
    /\ UNCHANGED <<wlock, dirty, controls, pos, fills, now, monitors, history>>
    /\ Untrack
    /\ UNCHANGED fixed

\* a tick that finds a pending exit: cancel the open orders of the symbol; the
\* answer of exchange.cancel is not looked at, so an order whose cancel the
\* exchange rejects stays open and the tick goes on
D_ExitBegin ==
    /\ d.pc = "idle"
    /\ \E r \in ExitRow :
        \/ \E kept \in SUBSET orders :
              /\ orders' = kept
              /\ d' = [DIdle EXCEPT !.pc = "exit_close", !.row = r,
                                    !.seen.cancRej = (kept # {})]
              /\ UNCHANGED <<rows, faults>>
        \/ /\ D_Fail(0, r, "cancel error", NoneSeen)
           /\ orders' = orders
    /\ UNCHANGED <<wlock, dirty, controls, pos, fills, nextOid, now, monitors,
                   history>>
    /\ Untrack
    /\ UNCHANGED fixed

\* market_close (None when there is no position), then status = 'executed'
D_ExitClose ==
    /\ d.pc = "exit_close"
    /\ \/ /\ IF pos
             THEN /\ pos' = FALSE
                  /\ fills' = AppendFill(fills, [oid |-> 0, close |-> TRUE,
                                                 pnl |-> PnlOf("close"),
                                                 time |-> now])
             ELSE UNCHANGED <<pos, fills>>
          /\ \/ /\ wlock = "none"
                /\ rows' = [rows EXCEPT ![d.row].status = "executed"]
                /\ d' = Ended(d.row, "executed", d.seen)
                /\ faults' = faults
             \/ D_Fail(1, d.row, "store error", d.seen)
       \/ /\ D_Fail(0, d.row, "close rejected", d.seen)
          /\ UNCHANGED <<pos, fills>>
    /\ UNCHANGED <<wlock, dirty, controls, orders, nextOid, now, monitors,
                   history>>
    /\ Untrack
    /\ UNCHANGED fixed

NextDispatch ==
    \/ D_EntryBegin \/ D_EntryOrders \/ D_ExitBegin \/ D_ExitClose
    \/ IngestEntry \/ IngestExit \/ AdvanceTime \/ EnvFillOrder \/ Restart

\* the dispatcher alone with its environment
SpecDispatch == Init /\ [][NextDispatch]_vars

\* a step of the dispatcher's thread
DTick == D_EntryBegin \/ D_EntryOrders \/ D_ExitBegin \/ D_ExitClose

\* the dispatcher alone with its environment, its thread scheduled whenever it
\* has a step to take: a gateway or store call in progress returns
SpecDispatchFair == Init /\ [][NextDispatch]_vars /\ WF_vars(DTick)

NextAdmin ==
    \/ D_EntryBegin \/ D_EntryOrders \/ D_ExitBegin \/ D_ExitClose
    \/ IngestEntry \/ IngestExit \/ EnvFillOrder \/ SendCommand

\* the dispatcher with the admin console writing commands
SpecAdmin == Init /\ [][NextAdmin]_vars

(* --------------------------- store access ----------------------------- *)
\* a connection can write when no other connection holds the write lock
CanWrite(p) == wlock \in {"none", p}

\* conn.commit() of connection p: its uncommitted writes become the table
Commit(p, v) ==
    /\ rows' = v
    /\ wlock' = IF wlock = p THEN "none" ELSE wlock
    /\ dirty' = IF wlock = p THEN <<>> ELSE dirty

\* a write statement of connection p leaves the table as v, uncommitted
Write(p, v) == wlock' = p /\ dirty' = v /\ rows' = rows

\* a loop iteration opens a new connection: the previous one, if an exception
\* left it with an open transaction, is dropped and its writes rolled back
Reconnect(p) ==
    /\ wlock' = IF wlock = p THEN "none" ELSE wlock
    /\ dirty' = IF wlock = p THEN <<>> ELSE dirty
    /\ rows' = rows

\* os.getenv('ENABLE_BREAKEVEN_SL', 'True').lower() == 'true'
EnableBreakeven == enableBe

\* the stop orders open on the exchange: the dispatcher's stop-loss and the
\* controller's breakeven stops
LiveStops == {o \in orders : o.kind \in {"sl", "be"}}

\* the calling loop hands a row to _move_sl_to_breakeven
Invoke(p, r, ticker, v) ==
    [BeIdle EXCEPT !.pc = "claim", !.row = r, !.ticker = ticker,
                   !.dir = v[r].dir, !.entry = v[r].entry,
                   !.sloid = v[r].osl, !.size = v[r].size,
                   !.hadStop = (LiveStops # {})]

\* the other calling loop
Other(p) == CHOOSE q \in Callers : q # p

\* variant: a call whose conditional UPDATE affected no row goes on
GoOnAfterLostClaim(b) == [b EXCEPT !.pc = "gateway"]
\* if cursor.rowcount == 0: return
AfterLostClaim(b) == BeIdle

(* ------------- BreakevenController: _move_sl_to_breakeven ------------- *)
\* the conditional UPDATE ... WHERE id = ? AND sl_moved_to_be = 0 and what
\* follows it: zero rows affected, return at once (the statement has opened a
\* transaction, which stays open); one row affected, commit and go on; the
\* statement or the commit raising, the failure handler
BE_Claim(p) ==
    /\ be[p].pc = "claim"
    /\ LET v == View(p)
           r == be[p].row
       IN  \/ /\ CanWrite(p)
              /\ v[r].be
              /\ Write(p, v)
              /\ be' = [be EXCEPT ![p] = AfterLostClaim(be[p])]
              /\ faults' = faults
           \/ /\ CanWrite(p)
              /\ ~v[r].be
              /\ Commit(p, [v EXCEPT ![r].be = TRUE,
                                     ![r].notes = AddNote(v[r], "BE SL in progress")])
              /\ be' = [be EXCEPT ![p].pc = "gateway", ![p].won = TRUE,
                                  ![Other(p)].rival =
                                      @ \/ (be[Other(p)].pc # "idle"
                                            /\ be[Other(p)].row = r)]
              /\ faults' = faults
           \/ /\ Raises(1)
              /\ be' = [be EXCEPT ![p].pc = "rollback"]
              /\ UNCHANGED store
    /\ idem' = IF p = "rc" THEN idem ELSE IdemOff
    /\ UNCHANGED <<controls, fixed, exchange, now, d, fm, rc,
                   entrySubmits, beAccepted>>

\* variant: the new stop covers the whole position
WholePosition(size, nt) == size
\* round(position_size * (num_targets - 1) / num_targets, sz_decimals)
RemainingLots(size, nt) == RoundDiv(size * (nt - 1), nt)

\* sz_decimals of the model's instrument: LotsPerCoin = 10^SzDecimals
SzDecimals == 1

\* is_long = direction.lower() in ['long', 'bullish']
IsLong(direction) == direction \in {"long", "bullish"}

\* the order of step 2 as the exchange holds it once accepted under id oid:
\* exchange.order(is_buy = not is_long, sz = remaining_size, limit_px =
\* be_price_rounded, a trigger of kind sl, reduce_only = True), for the
\* call's arguments b and the row's count of targets nt
BeOrder(oid, b, nt) ==
    [oid |-> oid, kind |-> "be", isBuy |-> ~IsLong(b.dir),
     sz |-> RemainingLots(b.size, nt), px |-> RoundPx(b.entry, 0, SzDecimals),
     reduceOnly |-> TRUE]

\* user_state and the position check, the cancel of the old stop (its failure
\* is swallowed), the new stop order at the entry price
BE_Gateway(p) ==
    /\ be[p].pc = "gateway"
    /\ LET r == be[p].row
           rem == RemainingLots(be[p].size, View(p)[r].nt)
       IN  \/ /\ be' = [be EXCEPT ![p].pc = "rollback", ![p].gw = TRUE]
              /\ UNCHANGED <<orders, nextOid, beAccepted>>
              /\ idem' = IF p = "rc" THEN idem ELSE IdemOff
           \/ /\ be[p].ticker \notin OpenTickers
              /\ be' = [be EXCEPT ![p] = BeIdle]
              /\ UNCHANGED <<orders, nextOid, beAccepted>>
              /\ idem' = IF p = "rc" THEN idem ELSE IdemOff
           \/ /\ be[p].ticker \in OpenTickers
              /\ idem' = IF p = "rc" THEN [idem EXCEPT !.calls = TRUE]
                          ELSE IdemOff
              /\ \E cancelled \in BOOLEAN :
                  LET left == IF cancelled /\ be[p].sloid # 0
                              THEN {o \in orders : o.oid # be[p].sloid}
                              ELSE orders
                  IN  \/ /\ rem > 0
                         /\ nextOid <= MaxOid
                         /\ orders' = left \cup {BeOrder(nextOid, be[p],
                                                           View(p)[r].nt)}
                         /\ nextOid' = nextOid + 1
                         /\ beAccepted' = beAccepted \cup {<<r, nextOid>>}
                         /\ be' = [be EXCEPT ![p].pc = "persist",
                                             ![p].gw = TRUE,
                                             ![p].beoid = nextOid]
                      \/ /\ orders' = left
                         /\ nextOid' = nextOid
                         /\ beAccepted' = beAccepted
                         /\ be' = [be EXCEPT ![p].pc = "rollback",
                                             ![p].gw = TRUE]
    /\ UNCHANGED <<store, controls, fixed, pos, fills, now, d, fm, rc, faults,
                   entrySubmits>>

\* UPDATE signals SET be_sl_order_id = ? and commit
BE_Persist(p) ==
    /\ be[p].pc = "persist"
    /\ LET v == View(p)
           r == be[p].row
       IN  \/ /\ CanWrite(p)
              /\ Commit(p, [v EXCEPT ![r].beo = be[p].beoid,
                                     ![r].notes = AddNote(v[r], "BE SL triggered")])
              /\ be' = [be EXCEPT ![p] = BeIdle]
              /\ faults' = faults
           \/ /\ Raises(1)
              /\ be' = [be EXCEPT ![p].pc = "rollback"]
              /\ UNCHANGED store
    /\ idem' = IF p = "rc" THEN idem ELSE IdemOff
    /\ UNCHANGED <<controls, fixed, exchange, now, d, fm, rc,
                   entrySubmits, beAccepted>>

\* except Exception: UPDATE signals SET sl_moved_to_be = 0 and commit, an
\* exception of which is passed over
BE_Rollback(p) ==
    /\ be[p].pc = "rollback"
    /\ LET v == View(p)
           r == be[p].row
       IN  \/ /\ CanWrite(p)
              /\ Commit(p, [v EXCEPT ![r].be = FALSE,
                                     ![r].notes = AddNote(v[r], "BE SL failed")])
              /\ faults' = faults
           \/ /\ Raises(1)
              /\ UNCHANGED store
    /\ be' = [be EXCEPT ![p] = BeIdle]
    /\ idem' = IF p = "rc" THEN idem ELSE IdemOff
    /\ UNCHANGED <<controls, fixed, exchange, now, d, fm, rc,
                   entrySubmits, beAccepted>>

(* ------------------- FillMonitor: run_fill_monitor -------------------- *)
\* (closed_pnl / (entry_price * position_size)) * 100 as an exact fraction
\* <<numerator, denominator>>, the size being in lots
PnlPercent(closedPnl, entry, size) ==
    <<closedPnl * 100 * LotsPerCoin, entry * size>>

\* most recent fill time of a batch
MaxTime(fs) == CHOOSE t \in {fs[i].time : i \in 1..Len(fs)} :
                  \A i \in 1..Len(fs) : fs[i].time <= t

\* one iteration up to the filter on the watermark: a new connection, the
\* periodic full scan that resets the watermark, user_fills, and the advance of
\* the watermark to the newest fill before any fill is processed
FM_Poll ==
    /\ fm.pc = "idle"
    /\ \E rescan \in BOOLEAN :
        LET wm0 == IF rescan THEN 0 ELSE fm.wm
            new == SelectSeq(fills, LAMBDA f : f.time > wm0)
        IN  \/ fm' = FmIdle(wm0)
            \/ /\ new # <<>>
               /\ fm' = [pc |-> "fill", wm |-> MaxTime(new), batch |-> new,
                         done |-> {}]
    /\ Reconnect("fm")
    /\ UNCHANGED <<controls, exchange, now, d, rc, be, faults,
                   entrySubmits, beAccepted>>
    /\ Untrack
    /\ UNCHANGED fixed

\* _track_position_closure: SELECT ... symbol = ? AND signal_type = 'entry' AND
\* status = 'filled' ORDER BY created_at DESC LIMIT 1, the fill's coin being "ETH"
TrackTarget(v) ==
    LET c == {r \in RowIds(v) : /\ v[r].symbol = "ETH"
                                /\ v[r].kind = "entry"
                                /\ v[r].status = "filled"}
    IN  {r \in c : \A q \in c : v[q].created <= v[r].created}

\* the exit row that receives the same figure: the oldest executed or no_op
\* exit of the symbol created after the entry row
TrackExit(v, e) ==
    LET c == {x \in RowIds(v) : /\ v[x].symbol = "ETH"
                                /\ v[x].kind = "exit"
                                /\ v[x].status \in {"executed", "no_op"}
                                /\ v[x].created > v[e].created}
    IN  {x \in c : \A q \in c : v[x].created <= v[q].created}

\* the table after _track_position_closure has recorded the fill's PnL
TrackClosure(v, f) ==
    IF TrackTarget(v) = {} THEN v
    ELSE LET e == CHOOSE r \in TrackTarget(v) : TRUE
             pv == v[e].entry * v[e].size
             pct == IF pv > 0 THEN PnlPercent(f.pnl, v[e].entry, v[e].size)
                    ELSE <<0, 1>>
             v1 == [v EXCEPT ![e].pnl = pct,
                             ![e].notes = AddNote(v[e], "Actual PnL")]
         IN  IF TrackExit(v, e) = {} THEN v1
             ELSE [v1 EXCEPT ![CHOOSE x \in TrackExit(v, e) : TRUE].pnl = pct]

\* variant: the SELECT without its condition on created_at
FillMatchesAnyAge(v, oid) ==
    {r \in RowIds(v) : /\ \E k \in 1..NumTargets :
                              v[r].otp[k] # 0 /\ v[r].otp[k] = oid
                       /\ v[r].status = "filled"}
\* _process_fill's SELECT: the rows a fill's order id is attributed to
FillMatches(v, oid) ==
    {r \in RowIds(v) : /\ \E k \in 1..NumTargets :
                              v[r].otp[k] # 0 /\ v[r].otp[k] = oid
                       /\ v[r].status = "filled"
                       /\ v[r].created > now - RecencyDays}

\* variant: every matched fill counts as a fill of the first target
TpNumFirst(row, oid) == 1
\* CASE WHEN order_id_tp1 = ? THEN 1 WHEN order_id_tp2 = ? THEN 2 ...
TpNum(row, oid) ==
    CHOOSE k \in 1..NumTargets :
        row.otp[k] = oid /\ \A j \in 1..(k - 1) : row.otp[j] # oid

\* _process_fill for the next fill of the batch
FM_Fill ==
    /\ fm.pc = "fill"
    /\ fm.batch # <<>>
    /\ be["fm"].pc = "idle"
    /\ LET f == Head(fm.batch)
           v0 == View("fm")
           track == f.close /\ f.pnl # 0
       IN  \/ \E trackOk \in (IF track THEN BOOLEAN ELSE {TRUE}) :
                LET tracked == track /\ trackOk /\ TrackTarget(v0) # {}
                    v1 == IF tracked THEN TrackClosure(v0, f) ELSE v0
                    ms == FillMatches(v1, f.oid)
                IN  /\ IF trackOk THEN faults' = faults ELSE Raises(1)
                    /\ fm' = [fm EXCEPT !.batch = Tail(fm.batch),
                                        !.done = @ \cup {f.oid}]
                    /\ \/ /\ ms = {}
                          /\ IF tracked
                             THEN CanWrite("fm") /\ Write("fm", v1)
                             ELSE UNCHANGED store
                          /\ be' = be
                       \/ \E r \in ms :
                            LET k == TpNum(v1[r], f.oid)
                            IN  /\ CanWrite("fm")
                                /\ Write("fm", [v1 EXCEPT ![r].tpf[k] = f.time])
                                /\ be' = IF k = 1 /\ ~v1[r].be /\ EnableBreakeven
                                         THEN [be EXCEPT !["fm"] =
                                                 Invoke("fm", r, "ETH", v1)]
                                         ELSE be
           \/ /\ Raises(1)
              /\ fm' = FmIdle(fm.wm)
              /\ UNCHANGED <<store, be>>
    /\ UNCHANGED <<controls, exchange, now, d, rc, entrySubmits, beAccepted>>
    /\ Untrack
    /\ UNCHANGED fixed

\* conn.commit() after the batch; an exception leaves the transaction open
FM_Commit ==
    /\ fm.pc = "fill"
    /\ fm.batch = <<>>
    /\ be["fm"].pc = "idle"
    /\ fm' = FmIdle(fm.wm)
    /\ \/ Commit("fm", View("fm")) /\ faults' = faults
       \/ Raises(1) /\ UNCHANGED store
    /\ UNCHANGED <<controls, exchange, now, d, rc, be,
                   entrySubmits, beAccepted>>
    /\ Untrack
    /\ UNCHANGED fixed

(* ------------ Reconciler: run_position_reconciliation ----------------- *)
\* for fill in reversed(fills[-100:])
FillScan == 100

\* _get_pnl_from_fills over the fill history the gateway returned: the newest
\* closing fill with a non-zero closedPnl, <<>> (None) when there is none
PnlFromFills(row, hist) ==
    LET recent == LastN(hist, FillScan)
        hits == {i \in 1..Len(recent) : /\ recent[i].close
                                        /\ recent[i].pnl # 0
                                        /\ row.entry * row.size > 0}
    IN  IF hits = {} THEN <<>>
        ELSE LET i == CHOOSE j \in hits : \A h \in hits : h <= j
             IN  PnlPercent(recent[i].pnl, row.entry, row.size)

\* variant: closing a row also clears its breakeven flag
CloseGhostClearingFlag(row, hist) ==
    [row EXCEPT !.status = "closed", !.be = FALSE,
                !.notes = AddNote(row, "Auto-closed, PnL unavailable")]
\* UPDATE signals SET status = 'closed' ... of a ghost position
CloseGhost(row, hist) ==
    LET p == PnlFromFills(row, hist)
    IN  IF p # <<>>
        THEN [row EXCEPT !.status = "closed", !.pnl = p,
                         !.notes = AddNote(row, "Auto-closed, Actual PnL")]
        ELSE [row EXCEPT !.status = "closed",
                         !.notes = AddNote(row, "Auto-closed, PnL unavailable")]

\* variant: the SELECT without its condition on status
DbPositionsAnyStatus == {r \in RowIds(rows) : rows[r].kind = "entry"}
\* the rows the pass reads as open positions and those with no live position
DbPositions == {r \in RowIds(rows) : /\ rows[r].kind = "entry"
                                     /\ rows[r].status = "filled"}
\* variant: the stored symbol is compared as it is
GhostsBySymbol == {r \in DbPositions : rows[r].symbol \notin OpenTickers}
Ghosts == {r \in DbPositions : Clean(rows[r].symbol) \notin OpenTickers}

\* a set of row ids in rowid order
RECURSIVE SeqOf(_)
SeqOf(S) ==
    IF S = {} THEN <<>>
    ELSE LET m == CHOOSE x \in S : \A y \in S : x <= y
         IN  <<m>> \o SeqOf(S \ {m})

\* one pass up to the ghost updates: a new connection, the SELECT of filled
\* entry rows, user_state, and for every ghost user_fills and the UPDATE (not
\* yet committed).  No filled row, or user_state raising, ends the pass.
R_Begin ==
    /\ rc.pc = "idle"
    /\ \/ /\ Reconnect("rc")
          /\ rc' = RcIdle
          /\ idem' = IF DbPositions # {} THEN IdemOff
                      ELSE [phase |-> IF idem.phase \in {2, 4} THEN 4 ELSE 2,
                            snap |-> rows, calls |-> FALSE]
       \/ /\ DbPositions # {}
          /\ \E fetched \in BOOLEAN :
              LET hist == IF fetched THEN fills ELSE <<>>
                  v == [r \in RowIds(rows) |->
                          IF r \in Ghosts THEN CloseGhost(rows[r], hist)
                          ELSE rows[r]]
              IN  /\ IF Ghosts = {} THEN Reconnect("rc")
                     ELSE CanWrite("rc") /\ Write("rc", v)
                  /\ rc' = [pc |-> "bechk", ghosts |-> Ghosts,
                            fetched |-> fetched /\ Ghosts # {},
                            queue |-> <<>>]
          /\ idem' = IF idem.phase \in {2, 4}
                      THEN [phase |-> 3, snap |-> rows, calls |-> FALSE]
                      ELSE [phase |-> 1, snap |-> <<>>, calls |-> FALSE]
    /\ UNCHANGED <<controls, fixed, exchange, now, d, fm, be, faults,
                   entrySubmits, beAccepted>>

\* variant: the SELECT without its condition on status
WithoutBeAnyStatus(v) == {r \in RowIds(v) : ~v[r].be /\ v[r].otp[1] # 0}
\* _check_missed_breakeven's SELECT: status = 'filled' AND sl_moved_to_be = 0
\* AND order_id_tp1 IS NOT NULL
WithoutBe(v) == {r \in RowIds(v) : /\ v[r].status = "filled"
                                   /\ ~v[r].be
                                   /\ v[r].otp[1] # 0}

\* variant: every row of the SELECT, whether its target-1 order filled or not
MissedTp1Unchecked(v) == WithoutBe(v)
\* the rows of the SELECT whose target-1 order id is among the fills' ids
MissedTp1(v) ==
    {r \in WithoutBe(v) : \E i \in 1..Len(fills) : fills[i].oid = v[r].otp[1]}

\* _check_missed_breakeven up to its loop; user_fills raising ends the check
R_CheckBE ==
    /\ rc.pc = "bechk"
    /\ \E fetched \in BOOLEAN :
          rc' = [rc EXCEPT !.pc = "beloop",
                           !.queue = IF EnableBreakeven /\ fetched
                                     THEN SeqOf(MissedTp1(View("rc")))
                                     ELSE <<>>]
    /\ UNCHANGED <<store, controls, fixed, exchange, now, d, fm, be, faults,
                   entrySubmits, beAccepted, idem>>

\* the loop of _check_missed_breakeven hands the next row to the controller
\* with the symbol as stored; after the last row the pass commits
R_Next ==
    /\ rc.pc = "beloop"
    /\ be["rc"].pc = "idle"
    /\ \/ /\ rc.queue # <<>>
          /\ be' = [be EXCEPT !["rc"] =
                      Invoke("rc", Head(rc.queue),
                             View("rc")[Head(rc.queue)].symbol, View("rc"))]
          /\ rc' = [rc EXCEPT !.queue = Tail(rc.queue)]
          /\ UNCHANGED <<store, faults, idem>>
       \/ /\ rc.queue = <<>>
          /\ rc' = RcIdle
          /\ be' = be
          /\ \/ /\ Commit("rc", View("rc"))
                /\ faults' = faults
                /\ idem' = IF idem.phase \in {1, 3}
                            THEN [phase |-> idem.phase + 1,
                                  snap |-> IF idem.phase = 1 THEN View("rc")
                                           ELSE idem.snap,
                                  calls |-> FALSE]
                            ELSE IdemOff
             \/ /\ Raises(1)
                /\ UNCHANGED store
                /\ idem' = IdemOff
    /\ UNCHANGED <<controls, fixed, exchange, now, d, fm,
                   entrySubmits, beAccepted>>

\* the dispatcher's entry steps when its own store statements raise nothing
D_EntryBeginOk == D_EntryBegin /\ faults' = faults
D_EntryOrdersOk == D_EntryOrders /\ faults' = faults

\* the entry path of the dispatcher, the two monitors and the controller, with
\* store exceptions in the monitors and the controller
Next ==
    \/ D_EntryBeginOk \/ D_EntryOrdersOk
    \/ IngestEntry \/ EnvFillOrder
    \/ FM_Poll \/ FM_Fill \/ FM_Commit
    \/ R_Begin \/ R_CheckBE \/ R_Next
    \/ \E p \in Callers : BE_Claim(p)
    \/ \E p \in Callers : BE_Gateway(p)
    \/ \E p \in Callers : BE_Persist(p)
    \/ \E p \in Callers : BE_Rollback(p)

Spec == Init /\ [][Next]_vars

\* the same loops over rows that age
NextAged == Next \/ AdvanceTime

SpecAged == InitNoFaults /\ [][NextAged]_vars

\* the ingestion pipeline inserts a pending entry row of the usual shape: a
\* valid long with one target
IngestUsualEntry ==
    /\ wlock = "none"
    /\ Count("entry") < MaxEntries
    /\ rows' = Append(rows, NewRow("entry", "ETH", 100, 1))
    /\ entrySubmits' = Append(entrySubmits, 0)
    /\ beAccepted' = beAccepted
    /\ UNCHANGED <<wlock, dirty, controls, exchange, now, d, monitors, faults>>
    /\ Untrack
    /\ UNCHANGED fixed

\* the next step of each of the three threads fleet_runner starts, on the entry
\* path.  With one target nothing remains after it, the controller's new stop
\* has size zero and is never accepted: BE_Persist has no step here.
DStep == D_EntryBegin \/ D_EntryOrders
FmStep ==
    \/ FM_Poll \/ FM_Fill \/ FM_Commit
    \/ BE_Claim("fm") \/ BE_Gateway("fm") \/ BE_Rollback("fm")
RcStep ==
    \/ R_Begin \/ R_CheckBE \/ R_Next
    \/ BE_Claim("rc") \/ BE_Gateway("rc") \/ BE_Rollback("rc")

NextLive ==
    \/ D_EntryBegin \/ D_EntryOrders
    \/ IngestUsualEntry \/ EnvFillOrder
    \/ FM_Poll \/ FM_Fill \/ FM_Commit
    \/ R_Begin \/ R_CheckBE \/ R_Next
    \/ \E p \in Callers : BE_Claim(p)
    \/ \E p \in Callers : BE_Gateway(p)
    \/ \E p \in Callers : BE_Rollback(p)

\* an account with no position in another coin
InitLive == InitBase /\ otherPos = 0 /\ faults = 0 /\ calc = NoCalc

\* the three threads with every exception of the store and the gateway.  Each
\* thread is scheduled again and again; a statement that waits for the store's
\* write lock either gets it or raises when the busy timeout runs out, so a
\* thread whose step is possible again and again takes it (strong fairness).
SpecLive ==
    /\ InitLive
    /\ [][NextLive]_vars
    /\ SF_vars(DStep) /\ SF_vars(FmStep) /\ SF_vars(RcStep)

(* ------------- the reconciler's pass, gateway call by gateway call ---- *)
\* filled entry rows a pass of the reconciler is followed over
MaxPassRows == 2

\* the ingestion pipeline inserts a further pending entry row of the usual
\* shape while an earlier one is open
IngestNextEntry ==
    /\ wlock = "none"
    /\ Count("entry") < MaxPassRows
    /\ rows' = Append(rows, NewRow("entry", "ETH", 100, 1))
    /\ entrySubmits' = Append(entrySubmits, 0)
    /\ beAccepted' = beAccepted
    /\ UNCHANGED <<wlock, dirty, controls, exchange, now, d, monitors, faults>>
    /\ Untrack
    /\ UNCHANGED fixed

\* the start of a pass: a new connection, the SELECT of filled entry rows and
\* user_state; no filled row, or user_state raising, ends the pass
R_PassBegin ==
    /\ rc.pc = "idle"
    /\ Reconnect("rc")
    /\ \/ rc' = RcIdle
       \/ /\ DbPositions # {}
          /\ rc' = [pc |-> "ghost", ghosts |-> Ghosts, fetched |-> FALSE,
                    queue |-> SeqOf(Ghosts)]
    /\ UNCHANGED <<controls, exchange, now, d, fm, be, faults,
                   entrySubmits, beAccepted>>
    /\ Untrack
    /\ UNCHANGED fixed

\* the next ghost of the pass: user_fills inside _get_pnl_from_fills (the call
\* raising gives no PnL), then the UPDATE to 'closed', not yet committed; the
\* UPDATE raising ends the pass with the transaction left open
R_Ghost ==
    /\ rc.pc = "ghost"
    /\ rc.queue # <<>>
    /\ LET g == Head(rc.queue)
           v == View("rc")
       IN  \/ \E fetched \in BOOLEAN :
                /\ CanWrite("rc")
                /\ Write("rc", [v EXCEPT ![g] =
                        CloseGhost(v[g], IF fetched THEN fills ELSE <<>>)])
                /\ rc' = [rc EXCEPT !.queue = Tail(rc.queue),
                                    !.fetched = fetched]
                /\ faults' = faults
           \/ /\ Raises(1)
              /\ rc' = RcIdle
              /\ UNCHANGED store
    /\ UNCHANGED <<controls, exchange, now, d, fm, be,
                   entrySubmits, beAccepted>>
    /\ Untrack
    /\ UNCHANGED fixed

\* after the last ghost the pass goes on to _check_missed_breakeven
R_GhostsDone ==
    /\ rc.pc = "ghost"
    /\ rc.queue = <<>>
    /\ rc' = [rc EXCEPT !.pc = "bechk"]
    /\ UNCHANGED <<store, controls, exchange, now, d, fm, be, faults,
                   entrySubmits, beAccepted>>
    /\ Untrack
    /\ UNCHANGED fixed

\* the loop is about to make a gateway call: the reconciler's user_fills for
\* the next ghost, its user_fills in _check_missed_breakeven (made when the
\* SELECT returned a row), the controller's user_state, cancel and order
AtGatewayCall(p) ==
    \/ be[p].pc = "gateway"
    \/ /\ p = "rc"
       /\ \/ rc.pc = "ghost" /\ rc.queue # <<>>
          \/ rc.pc = "bechk" /\ EnableBreakeven /\ WithoutBe(View("rc")) # {}

NextPass ==
    \/ IngestNextEntry \/ D_EntryBeginOk \/ D_EntryOrdersOk \/ EnvFillOrder
    \/ R_PassBegin \/ R_Ghost \/ R_GhostsDone \/ R_CheckBE \/ R_Next
    \/ BE_Claim("rc") \/ BE_Gateway("rc") \/ BE_Rollback("rc")

\* the dispatcher's entry path and the reconciler, the pass taken one gateway
\* call at a time, on an account with no position in another coin
SpecPass == InitLive /\ [][NextPass]_vars

(* ------------------- the dispatcher and the reconciler ---------------- *)
NextCycle ==
    \/ D_EntryBegin \/ D_EntryOrders \/ D_ExitBegin \/ D_ExitClose
    \/ IngestEntry \/ IngestExit \/ EnvFillOrder
    \/ R_Begin \/ R_CheckBE \/ R_Next
    \/ BE_Claim("rc") \/ BE_Gateway("rc") \/ BE_Persist("rc")
    \/ BE_Rollback("rc")

\* entry and exit rows through the dispatcher, with the reconciler closing
\* the rows whose position is gone and every exception of the store
SpecCycle == Init /\ [][NextCycle]_vars

(* ------------- the monitors with breakeven enabled or disabled -------- *)
\* a process started with ENABLE_BREAKEVEN_SL set to either value
InitEnv ==
    /\ InitStore
    /\ enableBe \in BOOLEAN
    /\ faults = 0
    /\ calc = NoCalc

SpecEnv == InitEnv /\ [][Next]_vars

(* ---------------- promotions of long and of short positions ----------- *)
Directions == {"long", "short"}

\* the ingestion pipeline inserts a pending entry row of the usual shape, long
\* or short, with all the model's targets
IngestDirected ==
    /\ wlock = "none"
    /\ Count("entry") < MaxEntries
    /\ \E dir \in Directions :
          rows' = Append(rows, [NewRow("entry", "ETH", 100, NumTargets)
                                    EXCEPT !.dir = dir])
    /\ entrySubmits' = Append(entrySubmits, 0)
    /\ beAccepted' = beAccepted
    /\ UNCHANGED <<wlock, dirty, controls, exchange, now, d, monitors, faults>>
    /\ Untrack
    /\ UNCHANGED fixed

NextPromote ==
    \/ D_EntryBeginOk \/ D_EntryOrdersOk
    \/ IngestDirected \/ EnvFillOrder
    \/ FM_Poll \/ FM_Fill \/ FM_Commit
    \/ R_Begin \/ R_CheckBE \/ R_Next
    \/ \E p \in Callers : BE_Claim(p)
    \/ \E p \in Callers : BE_Gateway(p)
    \/ \E p \in Callers : BE_Persist(p)
    \/ \E p \in Callers : BE_Rollback(p)

\* the entry path, the two monitors and the controller over a long or a short
\* position, on an account with no position in another coin
SpecPromote == InitLive /\ [][NextPromote]_vars

(* ------------- promotion while the position stays open --------------- *)
\* the ingestion pipeline inserts a pending long entry row with all the
\* model's targets
IngestSplitEntry ==
    /\ wlock = "none"
    /\ Count("entry") < MaxEntries
    /\ rows' = Append(rows, NewRow("entry", "ETH", 100, NumTargets))
    /\ entrySubmits' = Append(entrySubmits, 0)
    /\ beAccepted' = beAccepted
    /\ UNCHANGED <<wlock, dirty, controls, exchange, now, d, monitors, faults>>
    /\ Untrack
    /\ UNCHANGED fixed

\* the exchange executes the resting entry or a take-profit that leaves part
\* of the position open
EnvFillKeepsOpen == EnvFillOrder /\ pos'

\* the exchange answers the controller's order with an order id
BE_Accepted(p) == BE_Gateway(p) /\ be'[p].pc = "persist"
\* the gateway answers the reconciler's user_state
R_StateAnswered == R_Begin /\ rc'.pc = "bechk"
\* the gateway answers the user_fills of _check_missed_breakeven, whose loop
\* finds a row to promote
R_FillsAnswered == R_CheckBE /\ rc'.queue # <<>>

\* the next step of the fill monitor's thread and of the reconciler's, the
\* controller's call included
FmTick == FmStep \/ BE_Persist("fm")
RcTick == RcStep \/ BE_Persist("rc")

NextRetry ==
    \/ D_EntryBeginOk \/ D_EntryOrdersOk
    \/ IngestSplitEntry \/ EnvFillKeepsOpen
    \/ FM_Poll \/ FM_Fill \/ FM_Commit
    \/ R_Begin \/ R_CheckBE \/ R_Next
    \/ \E p \in Callers : BE_Claim(p)
    \/ \E p \in Callers : BE_Gateway(p)
    \/ \E p \in Callers : BE_Persist(p)
    \/ \E p \in Callers : BE_Rollback(p)

\* the two monitors over a position that stays open, each thread scheduled
\* again and again (strong fairness, as in SpecLive) and the gateway answering
\* a call that is made again and again
SpecRetry ==
    /\ InitLive
    /\ [][NextRetry]_vars
    /\ SF_vars(FmTick) /\ SF_vars(RcTick)
    /\ SF_vars(R_StateAnswered) /\ SF_vars(R_FillsAnswered)
    /\ \A p \in Callers : SF_vars(BE_Accepted(p))

(* ------------------- fleet_runner: launch_fleet ----------------------- *)
\* "allowed_directions": "both", "long" or "short"
AllowedDirections == {"both", "long", "short"}

\* the parameters of HyperLiquidTopGun.__init__ after self
InitParams ==
    {"bot_id", "private_key", "risk_per_trade", "max_leverage",
     "default_sl_dist", "max_concurrent_positions"}

\* the keyword arguments of launch_fleet's call of the constructor
LaunchKwargs == InitParams \cup {"allowed_directions"}

\* an enabled identity of FLEET_CONFIG with a key, before launch_fleet reaches it
Configured(dirs) == [by |-> "fleet", dirs |-> dirs, pc |-> "config"]

\* a store that raises nothing; the engine constructed directly and running,
\* or an identity of FLEET_CONFIG about to be launched
InitFleet ==
    /\ InitTables
    /\ enableBe = TRUE
    /\ faults = MaxFaults
    /\ calc = NoCalc
    /\ launch \in {Direct} \cup {Configured(dirs) : dirs \in AllowedDirections}

\* launch_fleet's try block for the identity: the constructor is called with
\* LaunchKwargs; a keyword __init__ does not have raises TypeError, the handler
\* logs FAILED to launch and no thread is started
LaunchFleet ==
    /\ launch.pc = "config"
    /\ launch' = [launch EXCEPT !.pc = IF LaunchKwargs \subseteq InitParams
                                        THEN "running" ELSE "failed"]
    /\ UNCHANGED <<store, controls, exchange, now, d, monitors, faults,
                   history, otherPos, calc, enableBe>>
    /\ Untrack

\* the dispatcher's thread exists once the constructor has returned
F_EntryBegin == launch.pc = "running" /\ D_EntryBeginOk
F_EntryOrders == launch.pc = "running" /\ D_EntryOrdersOk
F_Tick == F_EntryBegin \/ F_EntryOrders

NextFleet ==
    \/ LaunchFleet
    \/ IngestDirected \/ EnvFillOrder
    \/ F_EntryBegin \/ F_EntryOrders

\* launch_fleet reaches the identity, and a dispatcher thread that was started
\* keeps ticking
SpecFleet ==
    /\ InitFleet
    /\ [][NextFleet]_vars
    /\ WF_vars(LaunchFleet) /\ WF_vars(F_Tick)

(* ------------- the fill monitor over two successive entries ---------- *)
NextTrack ==
    \/ IngestNextEntry \/ AdvanceTime
    \/ D_EntryBeginOk \/ D_EntryOrdersOk \/ EnvFillOrder
    \/ FM_Poll \/ FM_Fill \/ FM_Commit
    \/ BE_Claim("fm") \/ BE_Gateway("fm") \/ BE_Rollback("fm")

\* the dispatcher's entry path and the fill monitor over one entry row and a
\* later one for the same symbol, the clock advancing between them, with a
\* store that raises nothing
SpecTrack == InitNoFaults /\ [][NextTrack]_vars

(* ============================== claims ================================ *)

C2_EntrySubmittedOnce == \A r \in RowIds(rows) : entrySubmits[r] <= 1

\* a step of the tick that deals with an exit changes nothing of the entry side
EntrySideUntouched ==
    /\ \A r \in RowIds(rows) : entrySubmits'[r] = entrySubmits[r]
    /\ orders' \subseteq orders
    /\ \A r \in Pending("entry") : rows'[r].status = "pending"

\* C3: a tick that starts while an exit row is pending takes the oldest pending
\* exit row and no entry row: no entry, stop or take-profit order is sent and no
\* entry row changes status, at its start and until it ends.
C3_ExitBeforeEntry ==
    [][ /\ (d.pc = "idle" /\ Pending("exit") # {}) =>
             /\ EntrySideUntouched
             /\ d'.pc # "idle" =>
                    d'.pc = "exit_close" /\ d'.row \in Oldest(Pending("exit"))
             /\ \A r \in Pending("exit") :
                    rows'[r].status # "pending" => r \in Oldest(Pending("exit"))
        /\ d.pc = "exit_close" => EntrySideUntouched
      ]_vars

\* C3 witness: the tick is closing the position for an exit row while an entry
\* row inserted before that exit row is still pending
C3_Witness ==
    /\ d.pc = "exit_close"
    /\ rows[d.row].kind = "exit"
    /\ \E e \in Pending("entry") : e < d.row

\* the newest admin command of the identity is PAUSE
Paused == controls # <<>> /\ controls[Len(controls)] = "PAUSE"

\* C4: while the newest admin command is PAUSE, a tick takes no row: the
\* dispatcher stays idle, no pending row changes status, no entry order is sent.
\* (Refuted under SpecAdmin: run_loop never reads bot_controls.)
C4_PausedTakesNoRow ==
    [][ (Paused /\ d.pc = "idle") =>
            /\ d' = d
            /\ \A r \in RowIds(rows) : entrySubmits'[r] = entrySubmits[r]
            /\ \A r \in Pending("entry") \cup Pending("exit") :
                   rows'[r].status = "pending"
      ]_vars

\* the last entry of a row's notes
LastNote(row) == IF row.notes = <<>> THEN "" ELSE row.notes[Len(row.notes)]

\* the closing fills with a realized PnL in the history the gateway holds
ClosingFills == {i \in 1..Len(fills) : fills[i].close /\ fills[i].pnl # 0}

\* C5: every filled entry row whose normalized symbol is not among the live
\* non-zero positions is closed by the pass: closed with the PnL of the newest
\* closing fill when the fill history was obtained and holds one with a
\* non-zero realized PnL, closed with the note that PnL is unavailable
\* otherwise; and the row is closed in the table when the pass completes.
C5_GhostsClosed ==
    [][ /\ (rc.pc = "idle" /\ rc'.pc = "bechk") =>
             /\ rc'.ghosts =
                    {r \in RowIds(rows) :
                        /\ rows[r].kind = "entry"
                        /\ rows[r].status = "filled"
                        /\ ~(pos /\ rows[r].symbol \in {"ETH", "ETHUSDT"})}
             /\ \A r \in rc'.ghosts :
                    LET after == ViewNext("rc")[r]
                    IN  /\ after.status = "closed"
                        /\ IF rc'.fetched /\ ClosingFills # {}
                           THEN /\ LastNote(after) = "Auto-closed, Actual PnL"
                                /\ \E i \in ClosingFills :
                                      /\ \A j \in ClosingFills : j <= i
                                      /\ after.pnl =
                                           <<fills[i].pnl * 100 * LotsPerCoin,
                                             rows[r].entry * rows[r].size>>
                           ELSE /\ LastNote(after) = "Auto-closed, PnL unavailable"
                                /\ after.pnl = rows[r].pnl
        /\ (rc.pc = "beloop" /\ rc'.pc = "idle" /\ faults' = faults) =>
             \A r \in rc.ghosts :
                /\ rows'[r].status = "closed"
                /\ LastNote(rows'[r]) \in {"Auto-closed, Actual PnL",
                                           "Auto-closed, PnL unavailable"}
      ]_vars

\* C5 witness: a pass has completed and left a row closed with a recovered PnL
C5_Witness ==
    /\ rc.pc = "idle"
    /\ \E r \in RowIds(rows) :
          /\ rows[r].status = "closed"
          /\ rows[r].pnl # <<>>
          /\ LastNote(rows[r]) = "Auto-closed, Actual PnL"

\* the rows of a table that a pass would hand to the controller: filled, flag
\* false, target-1 order id among the fills' order ids
RetryRows(v) ==
    {r \in RowIds(v) : /\ v[r].status = "filled"
                       /\ ~v[r].be
                       /\ v[r].otp[1] # 0
                       /\ \E i \in 1..Len(fills) : fills[i].oid = v[r].otp[1]}

\* C6 as stated: a pass that runs directly after a completed pass, nothing else
\* having happened since that pass began, changes no field of any row and
\* sends no cancel and no order.
\* (Refuted: a promotion that failed and was rolled back is tried again.)
C6_SecondPassChangesNothing ==
    [][ (idem.phase \in {2, 3, 4} /\ idem'.phase = 4) =>
            rows' = idem'.snap /\ ~idem.calls
      ]_vars

\* C6 as amended: the same, when the first pass left no filled row with the
\* flag false and its target-1 order id among the fills (no promotion that
\* was rolled back or skipped because user_fills failed).
C6_SecondPassIdempotent ==
    [][ (idem.phase \in {2, 3, 4} /\ idem'.phase = 4
            /\ RetryRows(idem'.snap) = {}) =>
            rows' = idem'.snap /\ ~idem.calls
      ]_vars

\* C6 witness: the second of two passes in direct succession has completed,
\* the first having left a filled row whose flag is set and nothing to retry
C6_Witness ==
    /\ idem.phase = 4
    /\ rc.pc = "idle"
    /\ rows = idem.snap
    /\ RetryRows(idem.snap) = {}
    /\ \E r \in RowIds(idem.snap) :
          idem.snap[r].status = "filled" /\ idem.snap[r].be

\* C7: the fill monitor attributes no fill to a row created more than the
\* recency window ago: processing a fill, it writes a take-profit filled
\* timestamp only on a row inside the window and calls the controller only for
\* such a row.
C7_FillMonitorRecency ==
    [][ (fm.pc = "fill" /\ fm'.pc = "fill"
            /\ Len(fm'.batch) < Len(fm.batch)) =>
          \A r \in RowIds(rows) :
            (\/ ViewNext("fm")[r].tpf # View("fm")[r].tpf
             \/ (be["fm"].pc = "idle" /\ be'["fm"].pc = "claim"
                    /\ be'["fm"].row = r))
                => rows[r].created > now - RecencyDays
      ]_vars

\* C7 witness: the monitor has processed, after the row left the window, the
\* fill of the row's target-1 order and has left the row without a timestamp
C7_Witness ==
    /\ fm.pc = "fill"
    /\ fm.batch = <<>>
    /\ \E r \in RowIds(rows), i \in 1..Len(fills) :
          /\ rows[r].status = "filled"
          /\ rows[r].created <= now - RecencyDays
          /\ rows[r].otp[1] # 0
          /\ fills[i].oid = rows[r].otp[1]
          /\ fills[i].time = now
          /\ fills[i].oid \in fm.done
          /\ View("fm")[r].tpf[1] = 0

\* C8: no loop calls the controller for a row created more than the recency
\* window ago.
\* (Refuted under SpecAged: the reconciler's fallback SELECT has no condition
\* on created_at.)
C8_ControllerRecency ==
    [][ \A p \in Callers :
          (be[p].pc = "idle" /\ be'[p].pc = "claim") =>
              rows[be'[p].row].created > now - RecencyDays
      ]_vars

\* the position of the loop that called the controller
LoopPc(p) == IF p = "fm" THEN fm.pc ELSE rc.pc

\* C9: when a call that won the claim returns to its loop, the row has its
\* breakeven order id stored or its flag back to false.
\* (Refuted: the return on "position already closed" leaves the flag true with
\* no order id.)
C9_WinnerEndsResolved ==
    [][ \A p \in Callers :
          LET r == be[p].row
          IN  (be[p].won /\ be[p].pc # "idle" /\ be'[p].pc = "idle"
                 /\ LoopPc(p)' # "idle")
                => (rows'[r].beo # 0 \/ ~rows'[r].be)
      ]_vars

\* C10: the flag of a row goes from true to false only by the update of the
\* controller's failure handler for that row.
C10_FlagResetOnlyByRollback ==
    [][ \A r \in RowIds(rows) :
          (rows[r].be /\ ~rows'[r].be) =>
              \E p \in Callers : /\ be[p].pc = "rollback"
                                  /\ be[p].row = r
                                  /\ be'[p].pc = "idle"
      ]_vars

\* C10 witness: a row whose flag a claim set has since been closed by the
\* reconciler and still has the flag
C10_Witness ==
    \E r \in RowIds(rows) :
        /\ rows[r].be
        /\ rows[r].status = "closed"
        /\ LastNote(rows[r]) \in {"Auto-closed, Actual PnL",
                                   "Auto-closed, PnL unavailable"}

\* C11: the sizes of the take-profit orders submitted for a row sum exactly to
\* the row's rounded total size, for every size, number of targets and size
\* granularity.
C11_TpSizesSumToTotal ==
    (calc.op = "split" /\ calc.done) => calc.sum = calc.size

\* the fraction a / b equals the fraction c / e
SameFraction(a, b, c, e) == a * e = c * b

\* C12: a size whose notional exceeds equity * maxLeverage is replaced by
\* exactly equity * maxLeverage / entry, and a size whose notional does not is
\* left as it is.
C12_LeverageCap ==
    (calc.op = "cap" /\ calc.done) =>
        IF calc.num * calc.entry > calc.equity * calc.lev * calc.den
        THEN SameFraction(calc.out[1], calc.out[2],
                          calc.equity * calc.lev, calc.entry)
        ELSE SameFraction(calc.out[1], calc.out[2], calc.num, calc.den)
\* equity 1000, leverage 5, entry 100 and a raw size of 60 have given 50
C12_Witness ==
    /\ calc.op = "cap" /\ calc.done
    /\ calc.num = 60 /\ calc.den = 1 /\ calc.entry = 100
    /\ calc.equity = 1000 /\ calc.lev = 5
    /\ SameFraction(calc.out[1], calc.out[2], 50, 1)

\* digits of a whole number from its first to its last non-zero digit
RECURSIVE SigFigs(_)
SigFigs(n) ==
    IF n = 0 THEN 0
    ELSE IF n % 10 = 0 THEN SigFigs(n \div 10) ELSE Digits(Abs(n))

\* decimals of the price n * 10^-e
RECURSIVE DecimalsOf(_, _)
DecimalsOf(n, e) ==
    IF n = 0 \/ e = 0 THEN 0
    ELSE IF n % 10 = 0 THEN DecimalsOf(n \div 10, e - 1) ELSE e

\* the call round_px(12345.678) for an instrument with three size decimals
IsSpecExample ==
    calc.op = "round" /\ calc.done /\ calc.m = 12345678 /\ calc.e = 3
    /\ calc.szDec = 3

\* C13 as stated: for sizeDecimals 3 and price 12345.678 the result is 12300.
C13_RoundsTo12300 == IsSpecExample => calc.out = 12300000
\* C13 as amended: the result is 12346, which has five significant figures
\* and no decimals, the significant-figure limit being the binding one.
C13_RoundsTo12346 ==
    IsSpecExample =>
        /\ calc.out = 12346000
        /\ SigFigs(calc.out) <= 5
        /\ DecimalsOf(calc.out, calc.e) <= 3
        /\ 5 - 1 - (Digits(calc.m) - 1 - calc.e) < 6 - calc.szDec
C13_Witness == IsSpecExample /\ calc.out = 12346000

\* C14: round_px rounds a non-zero price to the nearest price with
\* d = min(4 - floor(log10 |price|), 6 - sizeDecimals) decimals: the result has
\* at most five significant figures and at most 6 - sizeDecimals decimals and
\* is a multiple of 10^-d; a price of zero gives zero.
C14_RoundPx ==
    (calc.op = "round" /\ calc.done) =>
        IF calc.m = 0 THEN calc.out = 0
        ELSE LET dd == Min(4 - (Digits(Abs(calc.m)) - 1 - calc.e),
                           6 - calc.szDec)
                 unit == Pow10(calc.e - dd)
             IN  /\ calc.out % unit = 0
                 /\ 2 * Abs(calc.out - calc.m) <= unit
                 /\ SigFigs(calc.out) <= 5
                 /\ DecimalsOf(calc.out, calc.e) <= 6 - calc.szDec
\* a price was rounded to tens or hundreds (negative d), and so was one whose
\* decimals the instrument limits
C14_Witness ==
    /\ calc.op = "round" /\ calc.done
    /\ calc.m = 12345678 /\ calc.e = 0 /\ calc.out = 12346000

\* a step of the dispatcher that ends a tick
TickEnds == d'.pc = "idle" /\ d' # d /\ d'.out # "none"

\* C15: a pending entry row that fails validation (entry price missing,
\* open positions at the maximum, entry equal to the stop, size rounding to
\* zero) is marked failed and no order is submitted for it.
C15_InvalidEntryMarkedFailed ==
    [][ \A r \in EntryRow :
            (d.pc = "idle" /\ TickEnds /\ Invalid(rows[r])) =>
                /\ rows'[r].status = "failed"
                /\ orders' = orders
                /\ nextOid' = nextOid ]_vars

\* the take-profit orders a step has opened
NewTpOids == {o.oid : o \in {x \in orders' \ orders : x.kind = "tp"}}

C18_EntryTickSettlesRow ==
    [][ (d.pc \in {"idle", "orders"} /\ TickEnds
         /\ rows[d'.row].kind = "entry") =>
            LET row == rows'[d'.row]
            IN  \/ row.status = "filled" /\ row.size > 0 /\ row.oe # 0
                \/ row.status = "failed" /\ row.notes # <<>> ]_vars

\* C19: an exit row becomes executed only when every cancel and the market
\* close succeeded: a tick in which the exchange rejected a cancel does not
\* leave the row executed.
C19_ExitExecutedOnlyOnSuccess ==
    [][ (d.pc = "exit_close" /\ TickEnds /\ rows'[d.row].status = "executed")
            => ~d.seen.cancRej ]_vars

\* C20: no exception inside a tick ends a loop: the dispatcher, the fill
\* monitor and the reconciler each come back to the top of their loop again
\* and again.
C20_LoopsKeepTicking ==
    /\ []<>(d.pc = "idle")
    /\ []<>(fm.pc = "idle")
    /\ []<>(rc.pc = "idle")

\* C20 witness: the dispatcher's tick ended in an exception that its handler
\* could not record either (the handler's own UPDATE raised), and the
\* dispatcher is at the top of its loop again with the row still pending
C20_Witness ==
    /\ d.pc = "idle"
    /\ d.out = "unmarked"
    /\ rows[d.row].status = "pending"
    /\ faults = MaxFaults

\* C21: no loop makes a gateway call while it holds an uncommitted write of the
\* store, and with it the store's write lock: a gateway call that blocks
\* leaves the other loops able to write.
\* (Refuted under SpecPass: the reconciler calls user_fills for its second
\* ghost with the first ghost's UPDATE uncommitted.)
C21_NoWriteLockAcrossGateway ==
    \A p \in Callers : AtGatewayCall(p) => wlock # p

\* the status changes of the lifecycle, by kind of row
Lifecycle(kind) ==
    IF kind = "entry"
    THEN {<<"pending", "filled">>, <<"pending", "failed">>,
          <<"filled", "closed">>}
    ELSE {<<"pending", "executed">>, <<"pending", "failed">>}

\* row `after` is row `before` with the same status or one step further
StatusStep(before, after) ==
    /\ after.kind = before.kind
    /\ after.status # before.status =>
          <<before.status, after.status>> \in Lifecycle(before.kind)

\* C22: every status change a loop makes, committed or not yet committed,
\* follows the lifecycle (entry: pending to filled, pending to failed, filled
\* to closed; exit: pending to executed, pending to failed); a failed, closed
\* or executed row keeps its status, and no row is deleted.
C22_StatusLifecycle ==
    [][ /\ Len(rows') >= Len(rows)
        /\ \A r \in RowIds(rows) : StatusStep(rows[r], rows'[r])
        /\ \A p \in Callers :
              wlock' = p =>
                  /\ Len(dirty') = Len(View(p))
                  /\ \A r \in RowIds(View(p)) :
                        StatusStep(View(p)[r], dirty'[r])
      ]_vars
\* an entry row has gone from pending to filled and, its position gone, to
\* closed, and an exit row has been executed
C22_Witness ==
    /\ \E r \in RowIds(rows) : rows[r].kind = "entry" /\ rows[r].status = "closed"
    /\ \E r \in RowIds(rows) : rows[r].kind = "exit" /\ rows[r].status = "executed"

\* C23: healing a ghost changes only the store: the step of a pass that closes
\* the rows whose position is absent places no order, cancels no order and
\* closes no position, and the rest of the pass hands no such row to the
\* controller.
C23_HealingLeavesExchange ==
    [][ /\ (rc.pc = "idle" /\ rc'.pc = "bechk" /\ rc'.ghosts # {}) =>
              /\ UNCHANGED <<pos, orders, nextOid, fills>>
              /\ \A r \in rc'.ghosts : ViewNext("rc")[r].status = "closed"
        /\ (be["rc"].pc = "idle" /\ be'["rc"].pc = "claim") =>
              be'["rc"].row \notin rc.ghosts
      ]_vars
\* a pass has closed a row whose target-1 order had filled, the flag not set,
\* and has gone through its breakeven check without a call of the controller
C23_Witness ==
    /\ rc.pc = "beloop"
    /\ rc.queue = <<>>
    /\ be["rc"].pc = "idle"
    /\ \E r \in rc.ghosts :
          /\ View("rc")[r].status = "closed"
          /\ ~View("rc")[r].be
          /\ \E i \in 1..Len(fills) : fills[i].oid = View("rc")[r].otp[1]

\* C24: every row inserted as pending eventually leaves pending (an entry
\* becomes filled or failed, an exit executed or failed), the dispatcher being
\* scheduled fairly and finitely many rows arriving.
C24_PendingEventuallyLeaves ==
    \A r \in 1..(MaxEntries + MaxExits) :
        (r \in RowIds(rows) /\ rows[r].status = "pending")
            ~> (/\ r \in RowIds(rows)
                /\ rows[r].status \in
                      IF rows[r].kind = "entry" THEN {"filled", "failed"}
                      ELSE {"executed", "failed"})
\* an entry row and an exit row have both left pending, a tick having been cut
\* short by a store exception or a restart on the way
C24_Witness ==
    /\ Len(rows) = MaxEntries + MaxExits
    /\ \A r \in RowIds(rows) : rows[r].status # "pending"
    /\ d.pc = "idle"
    /\ faults = MaxFaults

\* C25: the controller is invoked for a row only when breakeven promotion is
\* enabled, the row is filled, its flag was read as not set and the fill
\* history holds a fill of the row's target-1 order.  The fill monitor invokes
\* it only for the fill it is processing, that fill being of the target-1
\* order (a fill of another target never does); the reconciler only for the
\* rows its check selected on those conditions; with promotion disabled
\* neither invokes it.
C25_ControllerInvokedOnlyForTp1 ==
    [][ /\ (be["fm"].pc = "idle" /\ be'["fm"].pc = "claim") =>
              LET r == be'["fm"].row
                  v == View("fm")
                  f == Head(fm.batch)
              IN  /\ enableBe
                  /\ fm.pc = "fill"
                  /\ v[r].status = "filled"
                  /\ ~v[r].be
                  /\ v[r].otp[1] # 0
                  /\ f.oid = v[r].otp[1]
        /\ (rc.pc = "bechk" /\ rc'.pc = "beloop") =>
              \A i \in 1..Len(rc'.queue) :
                  LET r == rc'.queue[i]
                      v == View("rc")
                  IN  /\ enableBe
                      /\ v[r].status = "filled"
                      /\ ~v[r].be
                      /\ v[r].otp[1] # 0
                      /\ \E j \in 1..Len(fills) : fills[j].oid = v[r].otp[1]
        /\ (be["rc"].pc = "idle" /\ be'["rc"].pc = "claim") =>
              /\ enableBe
              /\ rc.pc = "beloop"
              /\ rc.queue # <<>>
              /\ be'["rc"].row = Head(rc.queue)
              /\ View("rc")[be'["rc"].row].status = "filled"
      ]_vars
\* with promotion disabled the fill monitor has processed the fill of a row's
\* target-1 order, has written its timestamp and has not called the controller
C25_Witness ==
    /\ ~enableBe
    /\ fm.pc = "fill"
    /\ be["fm"].pc = "idle"
    /\ \E r \in RowIds(View("fm")) :
          /\ View("fm")[r].tpf[1] # 0
          /\ View("fm")[r].otp[1] \in fm.done
          /\ ~View("fm")[r].be

\* the breakeven orders a step has opened
NewBeOrders == {o \in orders' \ orders : o.kind = "be"}

\* C26: the order a promotion places is a reduce-only stop trigger at the
\* rounded entry price of the row, on the side opposite the position's
\* direction, of size positionSize * (numTargets - 1) / numTargets rounded to
\* the instrument's size granularity; and the breakeven order id a promotion
\* persists is the id of the order it placed.
C26_BreakevenOrder ==
    [][ /\ \A o \in NewBeOrders :
              \E p \in Callers :
                  LET row == View(p)[be[p].row]
                  IN  /\ be[p].pc = "gateway"
                      /\ be'[p].pc = "persist"
                      /\ be'[p].beoid = o.oid
                      /\ o.reduceOnly
                      /\ o.isBuy = (row.dir \notin {"long", "bullish"})
                      /\ o.px = RoundPx(row.entry, 0, SzDecimals)
                      /\ o.sz = RoundDiv(row.size * (row.nt - 1), row.nt)
                      /\ o.sz > 0
        /\ Cardinality(NewBeOrders) <= 1
        /\ \A p \in Callers :
              (be'[p].pc = "persist" /\ be[p].pc # "persist") =>
                  \E o \in NewBeOrders : o.oid = be'[p].beoid
        /\ \A r \in RowIds(rows) :
              rows'[r].beo # rows[r].beo =>
                  \E p \in Callers : /\ be[p].pc = "persist"
                                      /\ be[p].row = r
                                      /\ rows'[r].beo = be[p].beoid
      ]_vars
\* the promotion of a short position has placed a buy order for half of the
\* position at the entry price and has persisted its id
C26_Witness ==
    \E r \in RowIds(rows), o \in orders :
        /\ rows[r].dir = "short"
        /\ rows[r].beo # 0
        /\ o.kind = "be"
        /\ o.oid = rows[r].beo
        /\ o.isBuy
        /\ 2 * o.sz = rows[r].size
        /\ o.px = rows[r].entry

\* C27: an ordinary tick of the fill monitor takes exactly the fills whose
\* timestamp is greater than the watermark, a tick that rescans takes every
\* fill of the history, and a tick ends with every fill it took processed and
\* the watermark at the largest processed timestamp.
\* (Refuted: the watermark is advanced before the fills are processed, and an
\* exception while one is processed ends the tick with the rest unprocessed.)
C27_WatermarkAndRescan ==
    [][ /\ (fm.pc = "idle" /\ fm'.pc = "fill") =>
              \E wm0 \in {fm.wm, 0} :
                  /\ fm'.batch = SelectSeq(fills, LAMBDA f : f.time > wm0)
                  /\ fm'.wm = MaxTime(fm'.batch)
        /\ (fm.pc = "fill" /\ fm'.pc = "idle") =>
              /\ fm.batch = <<>>
              /\ fm'.wm = fm.wm
      ]_vars

\* C28: when the exchange rejects the entry order of a row, no stop and no
\* take-profit order is submitted for the row and the row is marked failed
\* with the rejection in notes.
\* (Refuted under SpecDispatch through C18: the handler's UPDATE can raise.)
C28_EntryRejectionFailsRow ==
    [][ (d.pc = "idle" /\ TickEnds /\ d'.seen.entryRej) =>
            /\ orders' = orders
            /\ nextOid' = nextOid
            /\ rows'[d'.row].status = "failed"
            /\ rows'[d'.row].notes = <<"entry order rejected">> ]_vars

\* C29: for every row, over any sequence of promotion attempts by either loop,
\* attempts rolled back after the gateway accepted the new stop and retried
\* later included, the exchange accepts at most one breakeven stop order.
\* (Refuted under Spec: the rollback resets the flag with the stop accepted.)
C29_OneBreakevenStopPerRow ==
    \A r \in RowIds(rows) :
        Cardinality({a \in beAccepted : a[1] = r}) <= 1

\* the fill history holds a fill of the row's target-1 order
Tp1Filled(r) ==
    /\ rows[r].otp[1] # 0
    /\ \E i \in 1..Len(fills) : fills[i].oid = rows[r].otp[1]

\* C30: if the target-1 order of a filled row has filled, promotion is enabled
\* and the position stays open, the promotion eventually completes: the row's
\* breakeven order id is set (no pass of the reconciler being about to close
\* the row, and order ids remaining for the retries).
\* (Refuted under SpecRetry: a rollback that raises leaves the flag set.)
C30_PromotionEventuallyCompletes ==
    \A r \in 1..MaxEntries :
        (/\ r \in RowIds(rows)
         /\ rows[r].status = "filled"
         /\ \A p \in Callers : View(p)[r].status = "filled"
         /\ Tp1Filled(r)
         /\ EnableBreakeven
         /\ pos
         /\ nextOid + MaxFaults <= MaxOid)
            ~> (r \in RowIds(rows) /\ rows[r].beo # 0)

\* the rows for which the step's loops submitted orders
SubmittingRows ==
    (IF d.pc = "orders" /\ d' # d THEN {d.row} ELSE {})
        \cup {be[p].row : p \in {q \in Callers : be[q].pc = "gateway"
                                                  /\ be'[q] # be[q]}}

\* C31: the only order that is not reduce-only is the dispatcher's entry limit
\* order; every stop-loss and take-profit order of the dispatcher and every
\* order of the controller is reduce-only and on the side opposite the
\* direction of its row.
C31_OnlyEntryOpens ==
    [][\A o \in orders' \ orders :
          \/ o.kind = "entry" /\ d.pc = "idle" /\ d'.pc = "orders"
          \/ /\ o.kind # "entry"
             /\ o.reduceOnly
             /\ SubmittingRows # {}
             /\ \A r \in SubmittingRows : o.isBuy = ~IsBuy(rows[r].dir)]_vars

\* a short position with a buy-side take-profit and a buy-side breakeven stop
C31_Witness ==
    \E o, q \in orders :
        /\ o.kind = "be" /\ o.isBuy /\ o.reduceOnly
        /\ q.kind \in {"sl", "tp"} /\ q.isBuy /\ q.reduceOnly

\* C32: an identity configured with allowed directions long (short) never
\* submits an entry order for a signal of the other direction, and with
\* allowed directions both a pending entry of either direction is processed.
\* (Refuted under SpecFleet: the constructor call of launch_fleet raises.)
C32_AllowedDirections ==
    /\ [][\A o \in orders' \ orders :
            o.kind = "entry" =>
                /\ launch.dirs = "long" => o.isBuy
                /\ launch.dirs = "short" => ~o.isBuy]_vars
    /\ \A r \in 1..MaxEntries :
          (/\ launch.dirs = "both"
           /\ r \in RowIds(rows)
           /\ rows[r].kind = "entry"
           /\ rows[r].status = "pending")
              ~> (r \in RowIds(rows) /\ rows[r].status # "pending")

\* the entry limit order of row r is open on the exchange, unfilled
EntryResting(r) == \E o \in orders : o.kind = "entry" /\ o.oid = rows[r].oe

\* C33: a row the dispatcher marked filled whose entry limit order is still
\* resting unfilled is not marked closed: a row is closed only after a
\* position for it existed.
\* (Refuted under Spec: the reconciler takes the row for a ghost.)
C33_ClosedOnlyAfterPosition ==
    [][\A r \in RowIds(rows) :
          (rows[r].status = "filled" /\ rows'[r].status = "closed")
              => ~EntryResting(r)]_vars

\* C34: whenever the controller returns for a row whose position is open and
\* which had a live stop order when the call began, a stop order of the
\* position (the original stop or a breakeven stop) is live.
\* (Refuted under Spec: the old stop is cancelled before the new one is sent.)
C34_StopSurvivesPromotion ==
    [][\A p \in Callers :
          (/\ be[p].pc # "idle"
           /\ be'[p].pc = "idle"
           /\ be[p].hadStop
           /\ pos')
              => \E o \in orders' : o.kind \in {"sl", "be"}]_vars

\* C35: only the caller that won the claim resets the breakeven flag: no step
\* takes a row's flag from true to false, or changes its breakeven order id,
\* on behalf of a call whose conditional UPDATE affected no row or raised.
\* (Refuted under Spec: the failure handler's UPDATE is unconditional.)
C35_OnlyWinnerResets ==
    [][\A r \in RowIds(rows) :
          (rows[r].be /\ ~rows'[r].be) =>
              \E p \in Callers : /\ be[p].pc = "rollback"
                                 /\ be[p].row = r
                                 /\ be[p].won]_vars

\* the orders the dispatcher's tick has submitted for its row that are open
\* after the step: the entry order of the tick and the orders of the step
TickOrdersLive ==
    {o \in orders' : o.oid = d.eoid /\ d.eoid # 0} \cup (orders' \ orders)

\* C36: whenever the dispatcher marks an entry row failed, no order submitted
\* for that row is live on the exchange.
\* (Refuted under SpecDispatch: the handler marks the row and cancels nothing.)
C36_FailedRowHasNoOrders ==
    [][\A r \in RowIds(rows) :
          (/\ rows[r].kind = "entry"
           /\ rows[r].status = "pending"
           /\ rows'[r].status = "failed")
              => TickOrdersLive = {}]_vars

\* C37: the fill monitor never writes a fill's PnL to an entry row created
\* after the fill's timestamp, neither on the first tick nor on a full rescan.
\* (Refuted under SpecTrack: the newest filled row of the symbol is taken.)
C37_PnlOnRowOfTheFill ==
    [][(fm.pc = "fill" /\ fm.batch # <<>> /\ fm' # fm) =>
          \A r \in RowIds(View("fm")) :
              ViewNext("fm")[r].pnl # View("fm")[r].pnl
                  => View("fm")[r].created <= Head(fm.batch).time]_vars

\* C38: after the dispatcher marks an exit row executed, every cancel of the
\* tick having been accepted, no order the engine placed for the symbol is
\* open on the exchange, whatever the monitors' controller does meanwhile.
\* (Refuted under SpecCycle: a breakeven stop placed between cancel and close.)
C38_ExecutedExitLeavesNoOrder ==
    [][\A r \in RowIds(rows) :
          (/\ rows[r].kind = "exit"
           /\ rows[r].status = "pending"
           /\ rows'[r].status = "executed"
           /\ ~d.seen.cancRej)
              => orders' = {}]_vars

\* C39: for a filled row whose position is live under the normalised form of
\* its stored symbol, the controller invoked by the reconciler's fallback
\* check finds the position and does not return as position already closed.
\* (Refuted under Spec: the fallback check passes the symbol as stored.)
C39_SymbolNormalised ==
    [][(/\ be["rc"].pc = "gateway"
        /\ be'["rc"].pc = "idle"
        /\ be["rc"].row \in RowIds(rows))
          => Clean(rows[be["rc"].row].symbol) \notin OpenTickers]_vars

\* C40: the fill monitor's watermark never moves past a fill whose processing
\* did not complete: when a tick ends with fills of its batch unprocessed, the
\* watermark it leaves is older than each of them, so that the next ordinary
\* tick examines them again.
\* (Refuted under Spec: the watermark is set before the batch is processed.)
C40_WatermarkBehindUnprocessed ==
    [][(fm.pc = "fill" /\ fm'.pc = "idle" /\ fm.batch # <<>>) =>
          \A i \in 1..Len(fm.batch) : fm.batch[i].time > fm'.wm]_vars

====
